---- MODULE Spec2Model ----
(***************************************************************************)
(* A model of reflex/constants/base.py: the import of the module (its      *)
(* class bodies run top to bottom, once), and what a consumer can do with  *)
(* the imported module: read the namespaces, compare LogLevel members,     *)
(* call Env on a token, and change the process environment afterwards.     *)
(***************************************************************************)
EXTENDS Integers, Sequences, FiniteSets, TLC

VARIABLES
    os_environ,       \* os.environ, restricted to REFLEX_DIR: a function on the set variables
    platform_system,  \* what platform.system() returns on this host
    distributions,    \* the distributions importlib.metadata can find
    pc,               \* the statement of the module the import is at
    ns,               \* the module's globals bound so far: name -> namespace record
    sys_modules,      \* the modules registered in sys.modules
    exc,              \* the exception the import raised, or "None"
    result            \* the outcome of the consumer's last operation

vars == <<os_environ, platform_system, distributions, pc, ns, sys_modules, exc, result>>

(***************************************************************************)
(* Python str primitives, on TLA+ strings.                                 *)
(***************************************************************************)

\* The printable ASCII characters in code-point order: 32 (space) to 95, and
\* 97 to 126.
ASCII_32 == " !\"#$%&'()*+,-./0123456789:;<=>?@ABCDEFGHIJKLMNOPQRSTUVWXYZ[\\]^_"
ASCII_97 == "abcdefghijklmnopqrstuvwxyz{|}~"

\* s[i-1] in Python: the i-th character (1-based) as a one-character string.
CharAt(s, i) == SubSeq(s, i, i)

\* The code point of each printable ASCII character.
code_points ==
    [c \in {CharAt(ASCII_32, i) : i \in 1..Len(ASCII_32)} |->
        31 + (CHOOSE i \in 1..Len(ASCII_32) : CharAt(ASCII_32, i) = c)]
    @@
    [c \in {CharAt(ASCII_97, i) : i \in 1..Len(ASCII_97)} |->
        96 + (CHOOSE i \in 1..Len(ASCII_97) : CharAt(ASCII_97, i) = c)]

\* ord(c) for a printable ASCII character.
ord(c) == code_points[c]

\* str.__lt__: lexicographic by code point, a proper prefix is smaller.
RECURSIVE str_lt(_, _)
str_lt(s, t) ==
    IF t = "" THEN FALSE
    ELSE IF s = "" THEN TRUE
    ELSE IF CharAt(s, 1) = CharAt(t, 1)
         THEN str_lt(SubSeq(s, 2, Len(s)), SubSeq(t, 2, Len(t)))
         ELSE ord(CharAt(s, 1)) < ord(CharAt(t, 1))

\* str.startswith
startswith(s, prefix) ==
    Len(prefix) <= Len(s) /\ SubSeq(s, 1, Len(prefix)) = prefix

\* sep.join([a, b])
str_join(sep, a, b) == a \o sep \o b

(***************************************************************************)
(* os.path, which is ntpath on Windows and posixpath elsewhere.            *)
(***************************************************************************)

Systems == {"Windows", "Darwin", "Linux"}

\* os.sep of the host.
os_sep(system) == IF system = "Windows" THEN "\\" ELSE "/"

\* The characters os.path takes as separators on the host.
os_seps(system) == IF system = "Windows" THEN {"\\", "/"} ELSE {"/"}

\* ntpath.splitdrive for a drive-letter path; posixpath has no drives.
splitdrive(system, p) ==
    IF system = "Windows" /\ Len(p) >= 2 /\ CharAt(p, 2) = ":"
    THEN <<SubSeq(p, 1, 2), SubSeq(p, 3, Len(p))>>
    ELSE <<"", p>>

\* Mutants of os_path_join: the separator is forgotten; the second component
\* is taken as absolute, which discards the first.
os_path_join_nosep(system, a, b) == a \o b
os_path_join_absolute(system, a, b) == os_sep(system) \o b

\* os.path.join(a, b), for a second component without a drive.
os_path_join(system, a, b) ==
    LET drive == splitdrive(system, a)[1]
        path  == splitdrive(system, a)[2]
    IN  IF b # "" /\ CharAt(b, 1) \in os_seps(system)
        THEN drive \o b
        ELSE IF path # "" /\ CharAt(path, Len(path)) \notin os_seps(system)
             THEN drive \o path \o os_sep(system) \o b
             ELSE IF system # "Windows" /\ path = ""
                  THEN b
                  ELSE drive \o path \o b

\* The segments of a path: the maximal runs of non-separator characters.
RECURSIVE segments_from(_, _, _, _)
segments_from(system, p, i, cur) ==
    IF i > Len(p)
    THEN (IF cur = "" THEN {} ELSE {cur})
    ELSE IF CharAt(p, i) \in os_seps(system)
         THEN (IF cur = "" THEN {} ELSE {cur}) \cup segments_from(system, p, i + 1, "")
         ELSE segments_from(system, p, i + 1, cur \o CharAt(p, i))

segments(system, p) == segments_from(system, p, 1, "")

(***************************************************************************)
(* The class bodies of the module, in the order the import runs them.      *)
(***************************************************************************)

\* Dirs.WEB, the root of the frontend layout.
Dirs_WEB == ".web"

\* The body of class Dirs, as a function of its root and of the host.
Dirs_body(WEB, system) ==
    LET APP_ASSETS == "assets"
        EXTERNAL_APP_ASSETS == "external"
        UTILS == "utils"
        STATIC == "_static"
        PUBLIC == "public"
    IN  [ WEB                 |-> WEB,
          APP_ASSETS          |-> APP_ASSETS,
          EXTERNAL_APP_ASSETS |-> EXTERNAL_APP_ASSETS,
          UTILS               |-> UTILS,
          STATIC              |-> STATIC,
          PUBLIC              |-> PUBLIC,
          STATE_PATH          |-> str_join("/", UTILS, "state"),
          COMPONENTS_PATH     |-> str_join("/", UTILS, "components"),
          CONTEXTS_PATH       |-> str_join("/", UTILS, "context"),
          WEB_PAGES           |-> os_path_join(system, WEB, "pages"),
          WEB_STATIC          |-> os_path_join(system, WEB, STATIC),
          WEB_UTILS           |-> os_path_join(system, WEB, UTILS),
          WEB_ASSETS          |-> os_path_join(system, WEB, PUBLIC),
          ENV_JSON            |-> os_path_join(system, WEB, "env.json"),
          REFLEX_JSON         |-> os_path_join(system, WEB, "reflex.json"),
          POSTCSS_JS          |-> os_path_join(system, WEB, "postcss.config.js") ]

\* The fields of Dirs built with os.path.join, and those built with "/".join.
Dirs_os_fields == {"WEB_PAGES", "WEB_STATIC", "WEB_UTILS", "WEB_ASSETS",
                   "ENV_JSON", "REFLEX_JSON", "POSTCSS_JS"}
Dirs_slash_fields == {"STATE_PATH", "COMPONENTS_PATH", "CONTEXTS_PATH"}

\* Reflex.MODULE_NAME
Reflex_MODULE_NAME == "reflex"

\* os.environ.get(name, default)
environ_get(environ, name, default) ==
    IF name \in DOMAIN environ THEN environ[name] ELSE default

\* PlatformDirs(appname, False).user_data_dir, as the class body documents it.
user_data_dir(appname, system) ==
    CASE system = "Windows" -> "C:/Users/<username>/AppData/Local/" \o appname
      [] system = "Darwin"  -> "~/Library/Application Support/" \o appname
      [] system = "Linux"   -> "~/.local/share/" \o appname

\* Mutants of Reflex_DIR: the platform default wins; the fallback is lost.
Reflex_DIR_default_first(_dir, system) == user_data_dir(Reflex_MODULE_NAME, system)
Reflex_DIR_no_fallback(_dir, system) == _dir

\* Reflex.DIR = _dir or PlatformDirs(MODULE_NAME, False).user_data_dir
Reflex_DIR(_dir, system) ==
    IF _dir # "" THEN _dir ELSE user_data_dir(Reflex_MODULE_NAME, system)

\* metadata.version(name): the version, or PackageNotFoundError.
metadata_version(dists, name) ==
    IF name \in DOMAIN dists THEN dists[name] ELSE "PackageNotFoundError"

\* The directory the reflex package is installed under (three dirnames of __file__).
Reflex_ROOT_DIR(system) ==
    IF system = "Windows" THEN "C:\\site-packages" ELSE "/site-packages"

\* The body of class Reflex once VERSION is known.
Reflex_body(environ, system, version) ==
    LET _dir == environ_get(environ, "REFLEX_DIR", "")
    IN  [ MODULE_NAME |-> Reflex_MODULE_NAME,
          VERSION     |-> version,
          JSON        |-> os_path_join(system, Dirs_WEB, "reflex.json"),
          _dir        |-> _dir,
          DIR         |-> Reflex_DIR(_dir, system),
          ROOT_DIR    |-> Reflex_ROOT_DIR(system) ]

\* The body of class Templates, with its nested Dirs.
Templates_body(system, Reflex) ==
    LET BASE == os_path_join(system,
                    os_path_join(system, Reflex.ROOT_DIR, Reflex.MODULE_NAME),
                    ".templates")
    IN  [ APP_TEMPLATES_ROUTE |-> "/app-templates",
          DEFAULT             |-> "blank",
          Dirs |-> [ BASE           |-> BASE,
                     WEB_TEMPLATE   |-> os_path_join(system, BASE, "web"),
                     JINJA_TEMPLATE |-> os_path_join(system, BASE, "jinja"),
                     CODE           |-> "code" ] ]

\* The body of class Next.
Next_body(system, Dirs) ==
    [ CONFIG_FILE         |-> "next.config.js",
      SITEMAP_CONFIG_FILE |-> os_path_join(system, Dirs.WEB, "next-sitemap.config.js"),
      NODE_MODULES        |-> "node_modules",
      PACKAGE_LOCK        |-> "package-lock.json" ]

(***************************************************************************)
(* The enumerations. A member of a (str, Enum) class is a str: every       *)
(* method the class does not define is str's, applied to the value.        *)
(***************************************************************************)

\* list(Env): the members in declaration order.
Env_members == << [name |-> "DEV",  value |-> "dev"],
                  [name |-> "PROD", value |-> "prod"] >>

\* Mutant of Env_call: "PROD" is accepted for "prod", and every other token
\* falls back to DEV.
Env_call_lenient(token) ==
    IF token \in {"prod", "PROD"} THEN "PROD" ELSE "DEV"

\* Env(token): the member whose value is the token, or ValueError.
Env_call(token) ==
    IF \E i \in 1..Len(Env_members) : Env_members[i].value = token
    THEN Env_members[CHOOSE i \in 1..Len(Env_members) : Env_members[i].value = token].name
    ELSE "ValueError"

\* list(LogLevel): the members in declaration order.
LogLevel_members == << [name |-> "DEBUG",    value |-> "debug"],
                       [name |-> "INFO",     value |-> "info"],
                       [name |-> "WARNING",  value |-> "warning"],
                       [name |-> "ERROR",    value |-> "error"],
                       [name |-> "CRITICAL", value |-> "critical"] >>

LogLevel == {LogLevel_members[i] : i \in 1..Len(LogLevel_members)}

\* levels.index(x): the 0-based position of the first element equal to x.
list_index(levels, x) ==
    (CHOOSE i \in 1..Len(levels) :
        /\ levels[i].value = x.value
        /\ \A j \in 1..(i - 1) : levels[j].value # x.value) - 1

\* str.__lt__, __gt__, __ge__, __eq__ and __ne__ on two members.
str___lt__(self, other) == str_lt(self.value, other.value)
str___gt__(self, other) == str_lt(other.value, self.value)
str___ge__(self, other) == ~str_lt(self.value, other.value)
str___eq__(self, other) == self.value = other.value
str___ne__(self, other) == self.value # other.value

\* Mutants of LogLevel___le__: str's own comparison; a strict comparison.
LogLevel___le___str(self, other) == ~str_lt(other.value, self.value)
LogLevel___le___strict(self, other) ==
    list_index(LogLevel_members, self) < list_index(LogLevel_members, other)

\* LogLevel.__le__
LogLevel___le__(self, other) ==
    LET levels == LogLevel_members
    IN  list_index(levels, self) <= list_index(levels, other)

(***************************************************************************)
(* The state machine: the import, then the consumer.                       *)
(***************************************************************************)

\* The name the module is registered under in sys.modules.
MODULE_base == "reflex.constants.base"

\* The values REFLEX_DIR takes in the runs explored.
Overrides == {"", "/custom/path", "relative/dir/"}

\* The tokens Env is called on in the runs explored.
Tokens == {"dev", "prod", "staging", "DEV", "", "pro"}

\* An empty mapping.
Empty == [x \in {} |-> ""]

NoResult == [op |-> "none"]

Init ==
    /\ os_environ \in {Empty} \cup {("REFLEX_DIR" :> v) : v \in Overrides}
    /\ platform_system \in Systems
    /\ distributions \in {Empty, (Reflex_MODULE_NAME :> "0.4.0")}
    /\ pc = "import"
    /\ ns = Empty
    /\ sys_modules = {}
    /\ exc = "None"
    /\ result = NoResult

\* The import begins: the module is registered, and line 13 runs.
ExecHead ==
    /\ pc = "import"
    /\ sys_modules' = sys_modules \cup {MODULE_base}
    /\ ns' = ns @@ ("IS_WINDOWS" :> (platform_system = "Windows"))
    /\ pc' = "Dirs"
    /\ UNCHANGED <<os_environ, platform_system, distributions, exc, result>>

\* class Dirs
ExecDirs ==
    /\ pc = "Dirs"
    /\ ns' = ns @@ ("Dirs" :> Dirs_body(Dirs_WEB, platform_system))
    /\ pc' = "Reflex"
    /\ UNCHANGED <<os_environ, platform_system, distributions, sys_modules, exc, result>>

\* Mutant of ExecReflex: a failed version lookup is swallowed and the class is
\* built with a placeholder version.
ExecReflex_swallow ==
    /\ pc = "Reflex"
    /\ LET version == metadata_version(distributions, Reflex_MODULE_NAME)
       IN  ns' = ns @@ ("Reflex" :> Reflex_body(os_environ, platform_system,
                            IF version = "PackageNotFoundError" THEN "unknown" ELSE version))
    /\ pc' = "Templates"
    /\ UNCHANGED <<os_environ, platform_system, distributions, sys_modules, exc, result>>

\* class Reflex. metadata.version raises inside the class body; nothing in the
\* module catches it, so the import fails and the module is unregistered.
ExecReflex ==
    /\ pc = "Reflex"
    /\ LET version == metadata_version(distributions, Reflex_MODULE_NAME)
       IN  IF version = "PackageNotFoundError"
           THEN /\ exc' = "PackageNotFoundError"
                /\ pc' = "failed"
                /\ sys_modules' = sys_modules \ {MODULE_base}
                /\ ns' = Empty
           ELSE /\ ns' = ns @@ ("Reflex" :> Reflex_body(os_environ, platform_system, version))
                /\ pc' = "Templates"
                /\ UNCHANGED <<sys_modules, exc>>
    /\ UNCHANGED <<os_environ, platform_system, distributions, result>>

\* class ReflexHostingCLI and class Templates
ExecTemplates ==
    /\ pc = "Templates"
    /\ ns' = ns @@ ("ReflexHostingCLI" :> [MODULE_NAME |-> "reflex-hosting-cli"])
                @@ ("Templates" :> Templates_body(platform_system, ns["Reflex"]))
    /\ pc' = "Next"
    /\ UNCHANGED <<os_environ, platform_system, distributions, sys_modules, exc, result>>

\* class Next and class ColorMode
ExecNext ==
    /\ pc = "Next"
    /\ ns' = ns @@ ("Next" :> Next_body(platform_system, ns["Dirs"]))
                @@ ("ColorMode" :> (("NAME" :> "colorMode") @@ ("USE" :> "useColorMode")
                                    @@ ("TOGGLE" :> "toggleColorMode")))
    /\ pc' = "Env"
    /\ UNCHANGED <<os_environ, platform_system, distributions, sys_modules, exc, result>>

\* class Env, class LogLevel and the module-level constants; the import returns.
ExecTail ==
    /\ pc = "Env"
    /\ ns' = ns @@ ("Env" :> Env_members)
                @@ ("LogLevel" :> LogLevel_members)
                @@ ("POLLING_MAX_HTTP_BUFFER_SIZE" :> 1000 * 1000)
                @@ ("Ping" :> [INTERVAL |-> 25, TIMEOUT |-> 120])
                @@ ("COOKIES" :> "cookies")
                @@ ("LOCAL_STORAGE" :> "local_storage")
                @@ ("SKIP_COMPILE_ENV_VAR" :> "__REFLEX_SKIP_COMPILE")
                @@ ("ENV_MODE_ENV_VAR" :> "REFLEX_ENV_MODE")
                @@ ("PYTEST_CURRENT_TEST" :> "PYTEST_CURRENT_TEST")
                @@ ("RELOAD_CONFIG" :> "__REFLEX_RELOAD_CONFIG")
                @@ ("REFLEX_VAR_OPENING_TAG" :> "<reflex.Var>")
                @@ ("REFLEX_VAR_CLOSING_TAG" :> "</reflex.Var>")
    /\ pc' = "done"
    /\ UNCHANGED <<os_environ, platform_system, distributions, sys_modules, exc, result>>

\* The module is imported: bound in sys.modules with its last statement run.
Imported == MODULE_base \in sys_modules /\ pc = "done"

\* The process sets REFLEX_DIR after the import.
SetEnviron ==
    /\ Imported
    /\ \E v \in Overrides : os_environ' = ("REFLEX_DIR" :> v)
    /\ UNCHANGED <<platform_system, distributions, pc, ns, sys_modules, exc, result>>

\* The process unsets REFLEX_DIR after the import.
DelEnviron ==
    /\ Imported
    /\ "REFLEX_DIR" \in DOMAIN os_environ
    /\ os_environ' = Empty
    /\ UNCHANGED <<platform_system, distributions, pc, ns, sys_modules, exc, result>>

\* Mutant of GetAttr: Reflex.DIR is resolved again on every read.
GetAttr_live ==
    /\ Imported
    /\ \E cls \in {"Dirs", "Reflex"} : \E attr \in DOMAIN ns[cls] :
          result' = [op |-> "getattr", cls |-> cls, attr |-> attr,
                     value |-> IF cls = "Reflex" /\ attr = "DIR"
                               THEN Reflex_DIR(environ_get(os_environ, "REFLEX_DIR", ""),
                                               platform_system)
                               ELSE ns[cls][attr]]
    /\ UNCHANGED <<os_environ, platform_system, distributions, pc, ns, sys_modules, exc>>

\* A consumer reads Dirs.<attr> or Reflex.<attr>: a class attribute, stored
\* when the class body ran.
GetAttr ==
    /\ Imported
    /\ \E cls \in {"Dirs", "Reflex"} : \E attr \in DOMAIN ns[cls] :
          result' = [op |-> "getattr", cls |-> cls, attr |-> attr, value |-> ns[cls][attr]]
    /\ UNCHANGED <<os_environ, platform_system, distributions, pc, ns, sys_modules, exc>>

\* A consumer compares LogLevel members with every relational operator.
Compare ==
    /\ Imported
    /\ \E a \in LogLevel : \E b \in LogLevel : \E c \in LogLevel :
          result' = [op |-> "compare", a |-> a.name, b |-> b.name, c |-> c.name,
                     le_ab |-> LogLevel___le__(a, b),
                     le_ba |-> LogLevel___le__(b, a),
                     le_bc |-> LogLevel___le__(b, c),
                     le_ac |-> LogLevel___le__(a, c),
                     le_aa |-> LogLevel___le__(a, a),
                     lt_ab |-> str___lt__(a, b),
                     gt_ab |-> str___gt__(a, b),
                     ge_ab |-> str___ge__(a, b),
                     eq_ab |-> str___eq__(a, b),
                     ne_ab |-> str___ne__(a, b)]
    /\ UNCHANGED <<os_environ, platform_system, distributions, pc, ns, sys_modules, exc>>

\* A consumer calls Env on a token.
CallEnv ==
    /\ Imported
    /\ \E token \in Tokens :
          result' = [op |-> "Env", token |-> token, value |-> Env_call(token)]
    /\ UNCHANGED <<os_environ, platform_system, distributions, pc, ns, sys_modules, exc>>

\* The import, statement by statement.
Import ==
    \/ ExecHead
    \/ ExecDirs
    \/ ExecReflex
    \/ ExecTemplates
    \/ ExecNext
    \/ ExecTail

\* The import, then a consumer of the namespaces and of Env in a process that
\* changes its environment.
Next ==
    \/ Import
    \/ SetEnviron
    \/ DelEnviron
    \/ GetAttr
    \/ CallEnv

Spec == Init /\ [][Next]_vars

\* The import, then a consumer of LogLevel.
NextLogLevel ==
    \/ Import
    \/ Compare

SpecLogLevel == Init /\ [][NextLogLevel]_vars

(***************************************************************************)
(* The properties.                                                         *)
(***************************************************************************)

\* The declaration position of each LogLevel member.
DeclarationPosition ==
    [DEBUG |-> 0, INFO |-> 1, WARNING |-> 2, ERROR |-> 3, CRITICAL |-> 4]

\* C1: for every pair of LogLevel members a, b, a <= b is true exactly when the
\* declaration position of a is at most that of b; the order of the backing
\* strings plays no part.
C1_LeFollowsDeclarationOrder ==
    result.op = "compare" =>
        (result.le_ab <=> DeclarationPosition[result.a] <= DeclarationPosition[result.b])

\* DEBUG <= CRITICAL has been evaluated and is true, although "debug" > "critical".
C1_Witness ==
    /\ result.op = "compare"
    /\ result.a = "DEBUG" /\ result.b = "CRITICAL"
    /\ result.le_ab
    /\ str_lt("critical", "debug")

\* C2: for every pair of LogLevel members a, b the other relational operators
\* agree with <=: a < b is (a <= b and a != b), a > b is not (a <= b), a >= b
\* is (b <= a), and a == b is (a <= b and b <= a).
C2_OperatorsAgreeWithLe ==
    result.op = "compare" =>
        /\ result.lt_ab <=> (result.le_ab /\ result.ne_ab)
        /\ result.gt_ab <=> ~result.le_ab
        /\ result.ge_ab <=> result.le_ba
        /\ result.eq_ab <=> (result.le_ab /\ result.le_ba)

\* C3: <= on LogLevel is a total order: reflexive, total, transitive and
\* antisymmetric, for all members a, b, c.
C3_LeIsTotalOrder ==
    result.op = "compare" =>
        /\ result.le_aa
        /\ result.le_ab \/ result.le_ba
        /\ (result.le_ab /\ result.le_bc) => result.le_ac
        /\ (result.le_ab /\ result.le_ba) => result.a = result.b

\* Three distinct members in a chain have been compared.
C3_Witness ==
    /\ result.op = "compare"
    /\ result.a = "INFO" /\ result.b = "WARNING" /\ result.c = "ERROR"
    /\ result.le_ab /\ result.le_bc /\ result.le_ac /\ ~result.le_ba

\* The class Reflex has been built and the environment is still the one its
\* body read (the process changes it only after the import).
ReflexJustBuilt == "Reflex" \in DOMAIN ns /\ pc # "done"

\* C4: when REFLEX_DIR is set and non-empty at construction, Reflex.DIR is the
\* override string exactly, on every platform; the platform default is not used.
C4_OverrideVerbatim ==
    (ReflexJustBuilt /\ environ_get(os_environ, "REFLEX_DIR", "") # "") =>
        /\ ns["Reflex"].DIR = os_environ["REFLEX_DIR"]
        /\ ns["Reflex"].DIR # user_data_dir(Reflex_MODULE_NAME, platform_system)

\* A relative override with a trailing separator is kept as it is on Windows.
C4_Witness ==
    /\ ReflexJustBuilt
    /\ platform_system = "Windows"
    /\ environ_get(os_environ, "REFLEX_DIR", "") = "relative/dir/"
    /\ ns["Reflex"].DIR = "relative/dir/"

\* C5: Env(token) is an exact match: "dev" gives DEV, "prod" gives PROD, and
\* every other token fails with an error instead of giving a member.
C5_EnvExactMatch ==
    result.op = "Env" =>
        /\ result.token = "dev" => result.value = "DEV"
        /\ result.token = "prod" => result.value = "PROD"
        /\ result.token \notin {"dev", "prod"} => result.value = "ValueError"

\* A token that differs from "dev" only in case has been refused.
C5_Witness ==
    /\ result.op = "Env"
    /\ result.token = "DEV"
    /\ result.value = "ValueError"

\* C6: once the import is done, no later step (a change of REFLEX_DIR or a
\* read) changes a namespace, and every read of Reflex.<attr> or Dirs.<attr>
\* returns the value stored at construction.
C6_ComputedOnce ==
    [][pc = "done" =>
          /\ pc' = "done"
          /\ ns' = ns
          /\ result'.op = "getattr" =>
                result'.value = ns[result'.cls][result'.attr]]_vars

\* Reflex.DIR has been read in an environment that would now resolve to
\* another directory.
C6_Witness ==
    /\ result.op = "getattr"
    /\ result.cls = "Reflex" /\ result.attr = "DIR"
    /\ result.value = ns["Reflex"].DIR
    /\ result.value # Reflex_DIR(environ_get(os_environ, "REFLEX_DIR", ""), platform_system)

\* C7: when the version lookup fails, the import ends in PackageNotFoundError
\* and nothing of the module is observable afterwards: it is not in
\* sys.modules and no consumer operation has produced a result.
C7_NoPartialRegistry ==
    (Reflex_MODULE_NAME \notin DOMAIN distributions /\ pc \notin {"import", "Dirs", "Reflex"}) =>
        /\ pc = "failed"
        /\ exc = "PackageNotFoundError"
        /\ MODULE_base \notin sys_modules
        /\ ~Imported
        /\ result = NoResult

\* The import has failed in the body of Reflex, after Dirs was built.
C7_Witness ==
    /\ pc = "failed"
    /\ exc = "PackageNotFoundError"
    /\ Reflex_MODULE_NAME \notin DOMAIN distributions

\* C8 as first stated: the layout built from ".web" is ".web/pages",
\* ".web/_static", ".web/env.json" and ".web/utils" on every platform.
C8_SlashOnEveryPlatform ==
    "Dirs" \in DOMAIN ns =>
        /\ ns["Dirs"].WEB_PAGES = ".web/pages"
        /\ ns["Dirs"].WEB_STATIC = ".web/_static"
        /\ ns["Dirs"].ENV_JSON = ".web/env.json"
        /\ ns["Dirs"].WEB_UTILS = ".web/utils"

\* C8, amended: the layout built from ".web" is ".web/pages", ".web/_static",
\* ".web/env.json" and ".web/utils" on Linux and Darwin, and the same four
\* paths with a backslash for the slash on Windows.
C8_NativeSeparator ==
    "Dirs" \in DOMAIN ns =>
        IF platform_system = "Windows"
        THEN /\ ns["Dirs"].WEB_PAGES = ".web\\pages"
             /\ ns["Dirs"].WEB_STATIC = ".web\\_static"
             /\ ns["Dirs"].ENV_JSON = ".web\\env.json"
             /\ ns["Dirs"].WEB_UTILS = ".web\\utils"
        ELSE /\ ns["Dirs"].WEB_PAGES = ".web/pages"
             /\ ns["Dirs"].WEB_STATIC = ".web/_static"
             /\ ns["Dirs"].ENV_JSON = ".web/env.json"
             /\ ns["Dirs"].WEB_UTILS = ".web/utils"

\* Dirs has been built on Windows, from the root ".web".
C8_Witness ==
    /\ "Dirs" \in DOMAIN ns
    /\ platform_system = "Windows"
    /\ ns["Dirs"].WEB = ".web"
    /\ ns["Dirs"].WEB_PAGES = ".web\\pages"

\* The roots the layout is rebuilt from.
Roots == {Dirs_WEB, "", "out/", "build", "/srv/web", "C:"}

\* C9 as first stated: every derived field of Dirs starts with Dirs.WEB.
C9_EveryFieldUnderRoot ==
    "Dirs" \in DOMAIN ns =>
        \A f \in Dirs_os_fields \cup Dirs_slash_fields :
            startswith(ns["Dirs"][f], ns["Dirs"].WEB)

\* C9, amended: every field of Dirs built with os.path.join (WEB_PAGES,
\* WEB_STATIC, WEB_UTILS, WEB_ASSETS, ENV_JSON, REFLEX_JSON, POSTCSS_JS)
\* starts with Dirs.WEB, for any root; STATE_PATH, COMPONENTS_PATH and
\* CONTEXTS_PATH start with Dirs.UTILS and a slash, not with the root.
C9_OsFieldsUnderRoot ==
    "Dirs" \in DOMAIN ns =>
        /\ \A f \in Dirs_os_fields : startswith(ns["Dirs"][f], ns["Dirs"].WEB)
        /\ \A root \in Roots : \A f \in Dirs_os_fields :
              startswith(Dirs_body(root, platform_system)[f], root)
        /\ \A f \in Dirs_slash_fields :
              /\ startswith(ns["Dirs"][f], ns["Dirs"].UTILS \o "/")
              /\ ~startswith(ns["Dirs"][f], ns["Dirs"].WEB)

\* Dirs has been built, with a field under the root and one outside it.
C9_Witness ==
    /\ "Dirs" \in DOMAIN ns
    /\ startswith(ns["Dirs"].POSTCSS_JS, ".web")
    /\ ns["Dirs"].STATE_PATH = "utils/state"

\* The conventional application-data directory of each platform.
ConventionalDataDir ==
    [Windows |-> "C:/Users/<username>/AppData/Local/reflex",
     Darwin  |-> "~/Library/Application Support/reflex",
     Linux   |-> "~/.local/share/reflex"]

\* C10: when REFLEX_DIR is unset or empty at construction, Reflex.DIR is the
\* platform's conventional application-data directory, has "reflex" as a path
\* segment, and differs from what the two other platforms resolve to.
C10_PlatformDefault ==
    (ReflexJustBuilt /\ environ_get(os_environ, "REFLEX_DIR", "") = "") =>
        /\ ns["Reflex"].DIR = ConventionalDataDir[platform_system]
        /\ Reflex_MODULE_NAME \in segments(platform_system, ns["Reflex"].DIR)
        /\ \A other \in Systems \ {platform_system} :
              Reflex_DIR("", other) # ns["Reflex"].DIR

\* Reflex has been built on Darwin with REFLEX_DIR set to the empty string.
C10_Witness ==
    /\ ReflexJustBuilt
    /\ platform_system = "Darwin"
    /\ "REFLEX_DIR" \in DOMAIN os_environ
    /\ os_environ["REFLEX_DIR"] = ""
    /\ ns["Reflex"].DIR = "~/Library/Application Support/reflex"

====
